---- MODULE Spec2Model ----
(***************************************************************************)
(* A model of python_bpspatcher/patcher.py: the variable-length integer    *)
(* decoder read_number_io, the container parser BPSPatch.__init__ and the  *)
(* action interpreter BPSPatch.patch_rom.                                  *)
(*                                                                         *)
(* Byte strings are sequences of integers 0..255.  A BytesIO is a byte     *)
(* string and a read position.  Python's None is the value None.           *)
(***************************************************************************)
EXTENDS Integers, Sequences, FiniteSets, TLC

\* ---------------------------------------------------------------- bounds
\* Longest byte stream handed to read_number_io in SpecCodec.
MaxStreamLen == 3
\* Most bytes of one encoded number in an input, terminal byte included:
\* every decoded number then fits the model's integers.
MaxVarintLen == 3
\* Most bytes between the magic and the footer of a patch in SpecParse.
MaxBodyLen == 3
\* Longest source buffer, largest declared target size and longest action
\* stream in SpecApply.
MaxSourceLen == 2
MaxTargetSize == 5
MaxActionsLen == 4

\* ------------------------------------------------------- Python built-ins
\* `return None` of read_number_io: a value no decoded number equals.
None == -1

Min(a, b) == IF a < b THEN a ELSE b
Max(a, b) == IF a > b THEN a ELSE b

\* A slice bound i clamped to a sequence of length n, as Python does
\* for s[i:j]: a negative bound counts from the end.
PyIndex(i, n) == IF i < 0 THEN Max(i + n, 0) ELSE Min(i, n)

\* s[a:b]
PySlice(s, a, b) ==
    LET lo == PyIndex(a, Len(s))
        hi == PyIndex(b, Len(s))
    IN  IF hi <= lo THEN <<>> ELSE SubSeq(s, lo + 1, hi)

\* t[a:b] = data on a bytearray: the slice is replaced by data, whatever
\* the two lengths are, so the bytearray may grow or shrink.
PySliceAssign(t, a, b, data) ==
    LET lo == PyIndex(a, Len(t))
        hi == Max(PyIndex(b, Len(t)), lo)
    IN  SubSeq(t, 1, lo) \o data \o SubSeq(t, hi + 1, Len(t))

\* ------------------------------------------------------------------ CRC32
\* binascii.crc32: the reflected CRC-32 of polynomial 0xEDB88320, initial
\* value and final xor 0xFFFFFFFF.  The register is kept as two 16-bit
\* halves so that every intermediate value fits TLC's integers.
RECURSIVE Xor(_, _)
Xor(a, b) ==
    IF a = 0 THEN b
    ELSE IF b = 0 THEN a
    ELSE ((a + b) % 2) + 2 * Xor(a \div 2, b \div 2)

\* One bit of the CRC register c = [hi, lo] shifted out.
CrcShift(c) ==
    LET lo == (c.lo \div 2) + (c.hi % 2) * 32768
        hi == c.hi \div 2
    IN  IF c.lo % 2 = 1
        THEN [hi |-> Xor(hi, 60856), lo |-> Xor(lo, 33568)]
        ELSE [hi |-> hi, lo |-> lo]

RECURSIVE CrcShifts(_, _)
CrcShifts(c, n) == IF n = 0 THEN c ELSE CrcShifts(CrcShift(c), n - 1)

\* The register 0x000000nn after its eight bits are shifted out.
CrcTable == [n \in 0..255 |-> CrcShifts([hi |-> 0, lo |-> n], 8)]

\* The register after one more byte x.
CrcByte(c, x) ==
    LET t == CrcTable[Xor(c.lo % 256, x)]
    IN  [hi |-> Xor(c.hi \div 256, t.hi),
         lo |-> Xor((c.lo \div 256) + (c.hi % 256) * 256, t.lo)]

RECURSIVE CrcFold(_, _, _)
CrcFold(s, i, c) ==
    IF i > Len(s) THEN c
    ELSE LET next == CrcByte(c, s[i])
         IN  IF next.lo >= 0 THEN CrcFold(s, i + 1, next) ELSE next

\* The CRC-32 of byte string s, as its four bytes in little-endian order.
Crc32(s) ==
    LET c  == CrcFold(s, 1, [hi |-> 65535, lo |-> 65535])
        hi == 65535 - c.hi
        lo == 65535 - c.lo
    IN  <<lo % 256, lo \div 256, hi % 256, hi \div 256>>

\* ------------------------------------------------- read_number_io (19-34)
\* The loop of read_number_io on the bytes b from position pos, with the
\* locals data and shift: the decoded number (or None) and the position
\* the stream is left at.
\* Mutant: the exhausted stream yields the number accumulated so far.
RECURSIVE ReadLoop_Partial(_, _, _, _)
ReadLoop_Partial(b, pos, data, shift) ==
    IF pos >= Len(b)
    THEN [data |-> data, pos |-> Len(b)]
    ELSE LET x == b[pos + 1]
             d == data + (x % 128) * shift
         IN  IF x >= 128
             THEN [data |-> d, pos |-> pos + 1]
             ELSE ReadLoop_Partial(b, pos + 1, d + shift * 128, shift * 128)

RECURSIVE ReadLoop(_, _, _, _)
ReadLoop(b, pos, data, shift) ==
    IF pos >= Len(b)
    THEN [data |-> None, pos |-> Len(b)]
    ELSE LET x == b[pos + 1]
             d == data + (x % 128) * shift
         IN  IF x >= 128
             THEN [data |-> d, pos |-> pos + 1]
             ELSE ReadLoop(b, pos + 1, d + shift * 128, shift * 128)

read_number_io(b, pos) == ReadLoop(b, pos, 0, 1)

\* The number of bytes of the number encoded at position pos of b, or 0
\* when no terminal byte follows.
RECURSIVE VarintLen(_, _)
VarintLen(b, pos) ==
    IF pos >= Len(b) THEN 0
    ELSE IF b[pos + 1] >= 128 THEN 1
    ELSE LET n == VarintLen(b, pos + 1) IN IF n = 0 THEN 0 ELSE n + 1

\* The inputs the model draws: no encoded number is longer than MaxVarintLen.
SmallVarints(b) == \A pos \in 0..(Len(b) - 1) : VarintLen(b, pos) <= MaxVarintLen

\* read_number: the number and the remaining bytes (bio.read()).
read_number(b) ==
    LET r == read_number_io(b, 0)
    IN  [data |-> r.data, rest |-> SubSeq(b, r.pos + 1, Len(b))]

\* convert_uint on at most four bytes: the unsigned little-endian value,
\* written as its four bytes (missing high bytes are zero).
convert_uint(b) == [i \in 1..4 |-> IF i <= Len(b) THEN b[i] ELSE 0]

\* ------------------------------------------------------------ UTF-8 decode
\* Whether bytes.decode("UTF-8") accepts b from index i on.
Cont(b, i) == i <= Len(b) /\ b[i] >= 128 /\ b[i] <= 191
Between(b, i, lo, hi) == i <= Len(b) /\ b[i] >= lo /\ b[i] <= hi

RECURSIVE Utf8From(_, _)
Utf8From(b, i) ==
    IF i > Len(b) THEN TRUE
    ELSE LET x == b[i]
         IN  IF x < 128 THEN Utf8From(b, i + 1)
             ELSE IF x >= 194 /\ x <= 223
                  THEN Cont(b, i + 1) /\ Utf8From(b, i + 2)
             ELSE IF x >= 224 /\ x <= 239
                  THEN /\ Between(b, i + 1, IF x = 224 THEN 160 ELSE 128,
                                            IF x = 237 THEN 159 ELSE 191)
                       /\ Cont(b, i + 2)
                       /\ Utf8From(b, i + 3)
             ELSE IF x >= 240 /\ x <= 244
                  THEN /\ Between(b, i + 1, IF x = 240 THEN 144 ELSE 128,
                                            IF x = 244 THEN 143 ELSE 191)
                       /\ Cont(b, i + 2)
                       /\ Cont(b, i + 3)
                       /\ Utf8From(b, i + 4)
             ELSE FALSE

ValidUtf8(b) == Utf8From(b, 1)

\* ----------------------------------------------- BPSPatch.__init__ (55-82)
MAGIC_HEADER == <<66, 80, 83, 49>>

\* header != self.MAGIC_HEADER
BadMagic(p) == PySlice(p, 0, 4) # MAGIC_HEADER

\* Mutant: the stored checksum is compared with itself.
ChecksumMismatch_SelfCompare(p) ==
    convert_uint(PySlice(p, -4, Len(p))) # convert_uint(PySlice(p, -4, Len(p)))

\* self.patch_checksum != calculated_checksum
ChecksumMismatch(p) ==
    convert_uint(PySlice(p, -4, Len(p))) # Crc32(PySlice(p, 0, -4))

\* remainder[:self.metadata_size]
MetadataBytes(rem, msize) ==
    IF msize = None THEN rem ELSE PySlice(rem, 0, msize)

\* remainder[self.metadata_size:-12]
ActionBytes(rem, msize) ==
    PySlice(rem, IF msize = None THEN 0 ELSE msize, -12)

\* ---------------------------------------------- BPSPatch.patch_rom (84-157)
SourceRead == 0
TargetRead == 1
SourceCopy == 2
TargetCopy == 3

\* Mutant: only a source shorter than declared is refused.
SizeMismatch_OnlyShorter(src, ssize) == Len(src) < ssize

\* len(source) != self.source_size
SizeMismatch(src, ssize) == Len(src) # ssize

\* source_checksum != self.source_checksum
SourceChecksumMismatch(src, ssum) == Crc32(src) # ssum

\* bytearray(n): n zero bytes
ZeroBytes(n) == [i \in 1..n |-> 0]

\* (-1 if data & 1 else 1) * (data >> 1)
SignedDelta(data) == (IF data % 2 = 1 THEN -1 ELSE 1) * (data \div 2)

\* actions.read(length): at most length bytes from position pos
StreamRead(b, pos, length) == SubSeq(b, pos + 1, Min(pos + length, Len(b)))

\* lines 116-118
ExecSourceRead(tgt, src, oo, length) ==
    [target |-> PySliceAssign(tgt, oo, oo + length, PySlice(src, oo, oo + length)),
     output_offset |-> oo + length]

\* lines 122-124
ExecTargetRead(tgt, payload, oo, length) ==
    [target |-> PySliceAssign(tgt, oo, oo + length, payload),
     output_offset |-> oo + length]

\* Mutant: the delta is applied to output_offset, not to the cursor.
ExecSourceCopy_FromOutput(tgt, src, oo, sro, delta, length) ==
    LET start == oo + SignedDelta(delta)
    IN  [target |-> PySliceAssign(tgt, oo, oo + length,
                                  PySlice(src, start, start + length)),
         output_offset |-> oo + length,
         source_relative_offset |-> start + length]

\* lines 130-136
ExecSourceCopy(tgt, src, oo, sro, delta, length) ==
    LET start == sro + SignedDelta(delta)
    IN  [target |-> PySliceAssign(tgt, oo, oo + length,
                                  PySlice(src, start, start + length)),
         output_offset |-> oo + length,
         source_relative_offset |-> start + length]

\* Whether t[i] raises IndexError.
IndexError(t, i) == i >= Len(t) \/ i < -Len(t)

\* t[i], for an index that raises no IndexError
PyItem(t, i) == IF i < 0 THEN t[i + Len(t) + 1] ELSE t[i + 1]

\* lines 145-148: n more iterations of the byte loop; ok is FALSE when
\* an iteration raised IndexError.
RECURSIVE CopyLoop(_, _, _, _)
CopyLoop(tgt, oo, tro, n) ==
    IF n = 0
    THEN [ok |-> TRUE, target |-> tgt, output_offset |-> oo,
          target_relative_offset |-> tro]
    ELSE IF IndexError(tgt, tro) \/ IndexError(tgt, oo)
    THEN [ok |-> FALSE, target |-> tgt, output_offset |-> oo,
          target_relative_offset |-> tro]
    ELSE CopyLoop([tgt EXCEPT ![oo + 1] = PyItem(tgt, tro)], oo + 1, tro + 1, n - 1)

\* Mutant: the bytes are copied as one range, from the target as it was.
ExecTargetCopy_RangeCopy(tgt, oo, tro, delta, length) ==
    LET start == tro + SignedDelta(delta)
    IN  [ok |-> TRUE,
         target |-> PySliceAssign(tgt, oo, oo + length,
                                  PySlice(tgt, start, start + length)),
         output_offset |-> oo + length,
         target_relative_offset |-> start + length]

\* lines 141-148
ExecTargetCopy(tgt, oo, tro, delta, length) ==
    CopyLoop(tgt, oo, tro + SignedDelta(delta), length)

VARIABLES
    pc,        \* where the running function is
    bound,     \* the attributes of self and the buffers assigned so far
    bio,       \* SpecCodec: the bytes of the BytesIO
    bpos,      \* SpecCodec: its read position
    bstart,    \* SpecCodec: the position the last call started at
    number,    \* SpecCodec: what the last call returned
    patch,     \* __init__: the patch buffer
    remainder, \* __init__: the local remainder
    source_size, target_size, metadata_size,            \* self.*
    metadata, actions,                                  \* self.*
    source_checksum, target_checksum, patch_checksum,   \* self.*
    source,    \* patch_rom: the source buffer
    target,    \* patch_rom: the bytearray target, once "target" is in bound
    apos,      \* patch_rom: the read position of the BytesIO over self.actions
    output_offset, source_relative_offset, target_relative_offset,
    command, length, data    \* patch_rom: the locals of the last iteration

codecVars == <<bio, bpos, bstart, number>>
sizeVars == <<source_size, target_size, metadata_size>>
sumVars == <<source_checksum, target_checksum, patch_checksum>>
selfVars == <<sizeVars, metadata, actions, sumVars>>
parseVars == <<patch, remainder>>
cursorVars == <<output_offset, source_relative_offset, target_relative_offset>>
instrVars == <<command, length, data>>
applyVars == <<source, target, apos, cursorVars, instrVars>>
vars == <<pc, bound, codecVars, parseVars, selfVars, applyVars>>

RECURSIVE SeqsUpTo(_, _)
SeqsUpTo(S, n) ==
    IF n = 0 THEN {<<>>}
    ELSE LET shorter == SeqsUpTo(S, n - 1)
         IN  shorter \cup {Append(s, x) : s \in {t \in shorter : Len(t) = n - 1}, x \in S}

\* Nothing assigned yet.
NoSelf ==
    /\ bound = {}
    /\ source_size = None /\ target_size = None /\ metadata_size = None
    /\ metadata = <<>> /\ actions = <<>>
    /\ source_checksum = <<>> /\ target_checksum = <<>> /\ patch_checksum = <<>>

NoCodec == bio = <<>> /\ bpos = 0 /\ bstart = 0 /\ number = None
NoParse == patch = <<>> /\ remainder = <<>>
NoApply ==
    /\ source = <<>> /\ target = <<>> /\ apos = 0
    /\ output_offset = 0 /\ source_relative_offset = 0 /\ target_relative_offset = 0
    /\ command = None /\ length = None /\ data = None

\* ------------------------------------------------------------- SpecCodec
CodecBytes == {0, 1, 127, 128, 129, 255}

CodecInit ==
    /\ pc = "codec"
    /\ bio \in SeqsUpTo(CodecBytes, MaxStreamLen)
    /\ bpos = 0
    /\ bstart = 0
    /\ number = None
    /\ NoParse /\ NoSelf /\ NoApply

\* One call read_number_io(b) on the stream as the previous call left it;
\* the caller stops calling after a None.
CallReadNumberIo ==
    /\ pc = "codec" \/ (pc = "codec_read" /\ number # None)
    /\ LET r == read_number_io(bio, bpos)
       IN  /\ number' = r.data
           /\ bpos' = r.pos
           /\ bstart' = bpos
    /\ pc' = "codec_read"
    /\ UNCHANGED <<bio, bound, parseVars, selfVars, applyVars>>

CodecNext == CallReadNumberIo

SpecCodec == CodecInit /\ [][CodecNext]_vars

\* ------------------------------------------------------------- SpecParse
\* The patch buffers drawn: a magic, a body of header numbers, metadata and
\* actions, the two checksums of the footer (or none), and a patch checksum
\* that is the CRC-32 of what precedes it or is off by one.
Magics == {MAGIC_HEADER, <<66, 80, 83, 50>>}
BodyBytes == {65, 128, 129, 130, 195}
FooterWords == {<<>>, <<0, 0, 0, 0, 0, 0, 0, 0>>, Crc32(<<65>>) \o Crc32(<<65, 66>>)}
OffByOne(w) == [w EXCEPT ![1] = (w[1] + 1) % 256]

PatchInputs ==
    {<<>>, <<66, 80, 83>>} \cup
    { p \in UNION { {pre \o Crc32(pre), pre \o OffByOne(Crc32(pre))} :
                   pre \in {m \o b \o f : m \in Magics,
                                           b \in SeqsUpTo(BodyBytes, MaxBodyLen),
                                           f \in FooterWords} } :
        SmallVarints(SubSeq(p, 5, Len(p))) }

ParseInit ==
    /\ pc = "magic"
    /\ patch \in PatchInputs
    /\ remainder = <<>>
    /\ NoSelf /\ NoCodec /\ NoApply

\* lines 56-59
CheckMagic ==
    /\ pc = "magic"
    /\ pc' = IF BadMagic(patch) THEN "invalid" ELSE "checksum"
    /\ UNCHANGED <<bound, codecVars, parseVars, selfVars, applyVars>>

\* lines 61-71
CheckPatchChecksum ==
    /\ pc = "checksum"
    /\ source_checksum' = convert_uint(PySlice(patch, -12, -8))
    /\ target_checksum' = convert_uint(PySlice(patch, -8, -4))
    /\ patch_checksum' = convert_uint(PySlice(patch, -4, Len(patch)))
    /\ bound' = bound \cup {"source_checksum", "target_checksum", "patch_checksum"}
    /\ pc' = IF ChecksumMismatch(patch) THEN "invalid" ELSE "source_size"
    /\ UNCHANGED <<codecVars, parseVars, sizeVars, metadata, actions, applyVars>>

\* lines 73-75
ReadSourceSize ==
    /\ pc = "source_size"
    /\ LET r == read_number(PySlice(patch, 4, Len(patch)))
       IN  source_size' = r.data /\ remainder' = r.rest
    /\ bound' = bound \cup {"source_size"}
    /\ pc' = "target_size"
    /\ UNCHANGED <<codecVars, patch, target_size, metadata_size, metadata, actions, sumVars, applyVars>>

\* line 76
ReadTargetSize ==
    /\ pc = "target_size"
    /\ LET r == read_number(remainder)
       IN  target_size' = r.data /\ remainder' = r.rest
    /\ bound' = bound \cup {"target_size"}
    /\ pc' = "metadata_size"
    /\ UNCHANGED <<codecVars, patch, source_size, metadata_size, metadata, actions, sumVars, applyVars>>

\* line 77
ReadMetadataSize ==
    /\ pc = "metadata_size"
    /\ LET r == read_number(remainder)
       IN  metadata_size' = r.data /\ remainder' = r.rest
    /\ bound' = bound \cup {"metadata_size"}
    /\ pc' = "metadata"
    /\ UNCHANGED <<codecVars, patch, source_size, target_size, metadata, actions, sumVars, applyVars>>

\* line 79: a UnicodeDecodeError leaves __init__ with metadata unassigned
DecodeMetadata ==
    /\ pc = "metadata"
    /\ LET m == MetadataBytes(remainder, metadata_size)
       IN  IF ValidUtf8(m)
           THEN metadata' = m /\ bound' = bound \cup {"metadata"} /\ pc' = "actions"
           ELSE UNCHANGED <<metadata, bound>> /\ pc' = "error"
    /\ UNCHANGED <<codecVars, parseVars, sizeVars, actions, sumVars, applyVars>>

\* line 82
SliceActions ==
    /\ pc = "actions"
    /\ actions' = ActionBytes(remainder, metadata_size)
    /\ bound' = bound \cup {"actions"}
    /\ pc' = "parsed"
    /\ UNCHANGED <<codecVars, parseVars, sizeVars, metadata, sumVars, applyVars>>

ParseNext ==
    \/ CheckMagic
    \/ CheckPatchChecksum
    \/ ReadSourceSize
    \/ ReadTargetSize
    \/ ReadMetadataSize
    \/ DecodeMetadata
    \/ SliceActions

SpecParse == ParseInit /\ [][ParseNext]_vars

\* ------------------------------------------------------------- SpecApply
\* The source buffers drawn: the first bytes of "AB...".
Sources == {[i \in 1..n |-> 64 + i] : n \in 0..MaxSourceLen}

\* The action streams drawn.  As opcodes the terminal bytes are SourceRead 1,
\* SourceCopy 1, TargetRead 2 and TargetCopy 3; as deltas they are +0, +1,
\* -2 and +5; 65 is a payload byte and a non-terminal byte.
ActionAlphabet == {65, 128, 130, 133, 139}
ActionStreams == {a \in SeqsUpTo(ActionAlphabet, MaxActionsLen) : SmallVarints(a)}
ShortStreams == {a \in ActionStreams : Len(a) <= 1}

\* The targets a patch may declare the checksum of.
ExpectedTargets == {<<0>>, <<65, 66>>}
TargetChecksums == {Crc32(t) : t \in ExpectedTargets}

\* The source a patch may declare the size and checksum of: one of the
\* sources or a buffer with other content; or it declares no size.
SourceDeclarations ==
    UNION {{[size |-> Len(e), sum |-> Crc32(e)], [size |-> None, sum |-> Crc32(e)]} :
           e \in Sources \cup {<<66>>}}
Declares(d, src) == d.size = Len(src) /\ d.sum = Crc32(src)

\* binascii.crc32 of each source drawn.
SourceCrc == [s \in Sources |-> Crc32(s)]

\* A container as __init__ leaves it and a source buffer.  When the
\* container declares no source size it declares, as in __init__, no target
\* size either, and without a target size it has no actions.  The longer
\* action streams are drawn for the sources the container declares.
ApplyInit ==
    /\ pc = "size"
    /\ source \in Sources
    /\ \E d \in SourceDeclarations :
           /\ source_size = d.size
           /\ source_checksum = d.sum
           /\ actions \in IF Declares(d, source) THEN ActionStreams ELSE ShortStreams
    /\ target_size \in 0..MaxTargetSize \cup {None}
    /\ source_size = None => target_size = None
    /\ target_size = None => actions = <<>>
    /\ target_checksum \in TargetChecksums
    /\ metadata_size = IF target_size = None THEN None ELSE 0
    /\ metadata = <<>>
    /\ patch_checksum = <<0, 0, 0, 0>>
    /\ bound = {"source_checksum", "target_checksum", "patch_checksum", "source_size",
                "target_size", "metadata_size", "metadata", "actions"}
    /\ target = <<>> /\ apos = 0
    /\ output_offset = 0 /\ source_relative_offset = 0 /\ target_relative_offset = 0
    /\ command = None /\ length = None /\ data = None
    /\ NoCodec /\ NoParse

\* lines 85-88
CheckSourceSize ==
    /\ pc = "size"
    /\ pc' = IF SizeMismatch(source, source_size) THEN "invalid" ELSE "source_crc"
    /\ UNCHANGED <<bound, codecVars, parseVars, selfVars, applyVars>>

\* lines 90-94
CheckSourceChecksum ==
    /\ pc = "source_crc"
    /\ pc' = IF SourceChecksumMismatch(source, source_checksum)
             THEN "invalid" ELSE "alloc"
    /\ UNCHANGED <<bound, codecVars, parseVars, selfVars, applyVars>>

\* lines 96-102: bytearray(None) raises TypeError
Allocate ==
    /\ pc = "alloc"
    /\ IF target_size = None
       THEN pc' = "error" /\ UNCHANGED <<target, bound>>
       ELSE /\ target' = ZeroBytes(target_size)
            /\ bound' = bound \cup {"target"}
            /\ pc' = "loop"
    /\ UNCHANGED <<codecVars, parseVars, selfVars, source, apos, cursorVars, instrVars>>

\* The action number line 105 reads.
NextAction == read_number_io(actions, apos)

\* lines 105-107: the stream holds no further number
StreamExhausted ==
    /\ pc = "loop"
    /\ NextAction.data = None
    /\ apos' = NextAction.pos
    /\ pc' = "target_crc"
    /\ UNCHANGED <<bound, codecVars, parseVars, selfVars, source, target,
                   cursorVars, instrVars>>

\* lines 105-118
DoSourceRead ==
    /\ pc = "loop"
    /\ NextAction.data # None
    /\ NextAction.data % 4 = SourceRead
    /\ LET len == (NextAction.data \div 4) + 1
           r   == ExecSourceRead(target, source, output_offset, len)
       IN  /\ command' = SourceRead
           /\ length' = len
           /\ target' = r.target
           /\ output_offset' = r.output_offset
    /\ apos' = NextAction.pos
    /\ pc' = "loop"
    /\ UNCHANGED <<bound, codecVars, parseVars, selfVars, source, data,
                   source_relative_offset, target_relative_offset>>

\* lines 105-112, 120-124
DoTargetRead ==
    /\ pc = "loop"
    /\ NextAction.data # None
    /\ NextAction.data % 4 = TargetRead
    /\ LET len     == (NextAction.data \div 4) + 1
           payload == StreamRead(actions, NextAction.pos, len)
           r       == ExecTargetRead(target, payload, output_offset, len)
       IN  /\ command' = TargetRead
           /\ length' = len
           /\ target' = r.target
           /\ output_offset' = r.output_offset
           /\ apos' = NextAction.pos + Len(payload)
    /\ pc' = "loop"
    /\ UNCHANGED <<bound, codecVars, parseVars, selfVars, source, data,
                   source_relative_offset, target_relative_offset>>

\* lines 105-112, 126-136: data & 1 raises TypeError when data is None
DoSourceCopy ==
    /\ pc = "loop"
    /\ NextAction.data # None
    /\ NextAction.data % 4 = SourceCopy
    /\ LET len == (NextAction.data \div 4) + 1
           d   == read_number_io(actions, NextAction.pos)
           r   == ExecSourceCopy(target, source, output_offset,
                                 source_relative_offset, d.data, len)
       IN  /\ command' = SourceCopy
           /\ length' = len
           /\ data' = d.data
           /\ apos' = d.pos
           /\ IF d.data = None
              THEN /\ pc' = "error"
                   /\ UNCHANGED <<target, output_offset, source_relative_offset>>
              ELSE /\ pc' = "loop"
                   /\ target' = r.target
                   /\ output_offset' = r.output_offset
                   /\ source_relative_offset' = r.source_relative_offset
    /\ UNCHANGED <<bound, codecVars, parseVars, selfVars, source,
                   target_relative_offset>>

\* lines 105-112, 138-148: data & 1 raises TypeError when data is None,
\* target[...] raises IndexError
DoTargetCopy ==
    /\ pc = "loop"
    /\ NextAction.data # None
    /\ NextAction.data % 4 = TargetCopy
    /\ LET len == (NextAction.data \div 4) + 1
           d   == read_number_io(actions, NextAction.pos)
           r   == ExecTargetCopy(target, output_offset, target_relative_offset,
                                 d.data, len)
       IN  /\ command' = TargetCopy
           /\ length' = len
           /\ data' = d.data
           /\ apos' = d.pos
           /\ IF d.data = None
              THEN /\ pc' = "error"
                   /\ UNCHANGED <<target, output_offset, target_relative_offset>>
              ELSE /\ pc' = IF r.ok THEN "loop" ELSE "error"
                   /\ target' = r.target
                   /\ output_offset' = r.output_offset
                   /\ target_relative_offset' = r.target_relative_offset
    /\ UNCHANGED <<bound, codecVars, parseVars, selfVars, source,
                   source_relative_offset>>

\* target_checksum != self.target_checksum
TargetChecksumMismatch(tgt, tsum) == Crc32(tgt) # tsum

\* lines 150-157
VerifyTarget ==
    /\ pc = "target_crc"
    /\ pc' = IF TargetChecksumMismatch(target, target_checksum)
             THEN "invalid" ELSE "returned"
    /\ UNCHANGED <<bound, codecVars, parseVars, selfVars, applyVars>>

ApplyNext ==
    \/ CheckSourceSize
    \/ CheckSourceChecksum
    \/ Allocate
    \/ StreamExhausted
    \/ DoSourceRead
    \/ DoTargetRead
    \/ DoSourceCopy
    \/ DoTargetCopy
    \/ VerifyTarget

SpecApply == ApplyInit /\ [][ApplyNext]_vars

\* ================================================================ claims

\* The signed value of a delta number d: bit 0 is the sign, the rest the
\* magnitude.
Signed(d) == IF d % 2 = 1 THEN -(d \div 2) ELSE d \div 2

\* A step of the interpreter loop that completes one instruction.
InstructionDone == pc = "loop" /\ pc' = "loop"

\* C1: a call of patch_rom that returns returns a target of exactly
\* target_size bytes.
C1_ReturnsTargetSize == pc = "returned" => Len(target) = target_size

\* C2: in the interpreter loop output_offset never decreases from one step
\* to the next and stays within 0..target_size.
C2_OutputOffsetBounded ==
    [][ /\ output_offset' >= output_offset
        /\ "target" \in bound' =>
               0 <= output_offset' /\ output_offset' <= target_size' ]_vars

\* C3: no instruction completes with a read outside the source buffer, with
\* a payload shorter than its length or with a read at a negative cursor.
C3_NoOutOfBoundsRead ==
    [][ InstructionDone =>
        /\ command' = SourceRead => output_offset + length' <= Len(source)
        /\ command' = TargetRead => NextAction.pos + length' <= Len(actions)
        /\ command' = SourceCopy =>
               LET start == source_relative_offset + Signed(data')
               IN  0 <= start /\ start + length' <= Len(source)
        /\ command' = TargetCopy =>
               LET start == target_relative_offset + Signed(data')
               IN  0 <= start /\ start + length' <= Len(target) ]_vars

\* C4: patch_rom returns only with output_offset equal to target_size.
C4_ReturnsOnlyComplete == pc = "returned" => output_offset = target_size

\* C5: __init__ never yields a container in which source_size, target_size
\* or metadata_size is absent.
C5_NoAbsentSize ==
    pc = "parsed" =>
        source_size # None /\ target_size # None /\ metadata_size # None

\* C6: a patch whose last four bytes are not the CRC-32 of the bytes before
\* them is never parsed, and none of source_size, target_size,
\* metadata_size, metadata and actions is decoded from it.
C6_ChecksumFirst ==
    convert_uint(PySlice(patch, -4, Len(patch))) # Crc32(PySlice(patch, 0, -4)) =>
        /\ pc \in {"magic", "checksum", "invalid"}
        /\ bound \cap {"source_size", "target_size", "metadata_size",
                       "metadata", "actions"} = {}

\* C6 witness: a patch with the right magic and a footer is refused for its
\* checksum.
C6_Witness ==
    /\ pc = "invalid"
    /\ Len(patch) >= 16
    /\ SubSeq(patch, 1, 4) = MAGIC_HEADER
    /\ convert_uint(PySlice(patch, -4, Len(patch))) # Crc32(PySlice(patch, 0, -4))

\* C7: when the source has another length than source_size or another
\* CRC-32 than source_checksum, patch_rom allocates no target, reads nothing
\* from the action stream, executes no instruction and does not return.
C7_SourceCheckedFirst ==
    (Len(source) # source_size \/ SourceCrc[source] # source_checksum) =>
        /\ pc \in {"size", "source_crc", "invalid"}
        /\ "target" \notin bound
        /\ apos = 0
        /\ command = None

\* C7 witness: a source of the declared size and another checksum is refused.
C7_Witness ==
    /\ pc = "invalid"
    /\ Len(source) = source_size
    /\ SourceCrc[source] # source_checksum
    /\ actions # <<>>

\* C8: read_number_io returns a number exactly when a byte with its high bit
\* set remains, and then leaves the stream just after the first such byte;
\* otherwise it returns None, which is no number.
C8_DecodeOrNone ==
    pc = "codec_read" =>
        IF \E i \in (bstart + 1)..Len(bio) : bio[i] >= 128
        THEN /\ number # None
             /\ number >= 0
             /\ bpos = bstart + VarintLen(bio, bstart)
        ELSE /\ number = None
             /\ None # 0

\* C8 witness: after one number was read the next one is cut short, and
\* the call returns None.
C8_Witness ==
    /\ pc = "codec_read"
    /\ bstart > 0
    /\ bstart < Len(bio)
    /\ number = None

C10_TargetCopyRepeats ==
    [][ (InstructionDone /\ command' = TargetCopy) =>
        LET start == target_relative_offset + Signed(data')
            k     == output_offset - start
        IN  (1 <= k /\ k <= output_offset) =>
                /\ output_offset' = output_offset + length'
                /\ output_offset' <= Len(target')
                /\ \A i \in 0..(length' - 1) :
                       target'[output_offset + i + 1]
                           = target[output_offset - k + (i % k) + 1] ]_vars

\* C10 witness: a TargetCopy of 3 bytes from 2 bytes back has run over two
\* different bytes.
C10_Witness ==
    /\ pc = "loop"
    /\ command = TargetCopy
    /\ length = 3
    /\ output_offset - target_relative_offset = 2
    /\ target[output_offset] # 0
    /\ target[output_offset] # target[output_offset - 1]
====
